---- MODULE Spec2Model ----
(***************************************************************************)
(* A model of publish.py: the Google-Doc-to-blog-post publisher.           *)
(*                                                                         *)
(* Documents (the index page, the post template, the rendered post) are    *)
(* sequences of tokens.  A token stands for one piece of markup that the   *)
(* program's regular expressions treat as a unit; the text fields inside   *)
(* a token are sequences of characters over a small alphabet, so that the  *)
(* escape processing of re.sub's replacement template is computed rather   *)
(* than assumed.                                                           *)
(***************************************************************************)
EXTENDS Integers, Sequences, FiniteSets, TLC

VARIABLES
  index,      \* content of index.html
  backup,     \* index.html.bak: [exists, content]
  upc,        \* position inside update_index_page: "idle", "backup", "write"
  ucur,       \* locals of the update_index_page call in flight
  ulast,      \* the last completed update_index_page call
  uprev,      \* the completed call before ulast
  upserted,   \* filenames for which update_index_page has returned success
  ncalls,     \* number of update_index_page calls started
  template,   \* content of posts/post-template.html
  vpc,        \* verification scenario: "start", "verified", "edited", "reverified"
  pattern_status, \* verify_template's third result
  is_valid,   \* verify_template's first result
  base_status,    \* pattern_status of the template before a marker was removed
  removed,    \* the pattern whose marker was removed from the template
  gpc,        \* position inside generate_post_html: "idle", "steps", "done"
  gtext,      \* generate_post_html's local template
  gstep,      \* the next safe_replace call, 1..6
  gpost,      \* generate_post_html's post_data
  warnings,   \* generate_post_html's warnings
  glog,       \* what each safe_replace call found and did
  html,       \* the exported document: [body, nodes]
  local_images,   \* the archive's image entries (empty for a download)
  fetch_ok,   \* the image URLs that requests.get can fetch
  imgdirs,    \* existing directories under images/posts, by slug
  imgfiles,   \* image files under images/posts: <<slug, img_index, src>>
  ppc,        \* "start" before parse_google_doc_html is called, then "parsed"
  presult,    \* what parse_google_doc_html returned or raised
  args,       \* the command line: [dry_run, force, no_push]
  paths,      \* the required paths that exist under the blog root
  input,      \* what args.url names: [kind, status, doc, archive]
  rpc,        \* where main is
  reason,     \* why main ended, "" while it runs
  post_file,  \* posts/<slug>.html: [exists, text]
  main_post_data,  \* the post_data dict main assembles
  generated,  \* what generate_post_html returned to main
  fs0,        \* the artifacts as they were when main started
  words,      \* len(text.split()) of the text given to estimate_reading_time
  minutes,    \* what estimate_reading_time returned, 0 before it is called
  tpc,        \* "start" before estimate_reading_time is called, then "done"
  verbose,    \* the verbose argument of run_full_verification
  git_ok,     \* what verify_git reports
  all_ok,     \* what run_full_verification returned
  fpc         \* "start" before run_full_verification is called, then "done"

ivars == <<index, backup, upc, ucur, ulast, uprev, upserted, ncalls>>

vvars == <<vpc, pattern_status, is_valid, base_status, removed>>

gvars == <<gpc, gtext, gstep, gpost, warnings, glog>>

pvars == <<html, local_images, fetch_ok, imgdirs, imgfiles, ppc, presult>>

rvars == <<args, paths, input, rpc, reason, post_file, main_post_data,
           generated, fs0>>

tvars == <<words, minutes, tpc>>

fvars == <<verbose, git_ok, all_ok, fpc>>

vars == <<ivars, template, vvars, gvars, pvars, rvars, tvars, fvars>>

notIndex == <<template, vvars, gvars, pvars, rvars, tvars, fvars>>

notVerify == <<ivars, gvars, pvars, rvars, tvars, fvars>>

notGenerate == <<ivars, template, vvars, pvars, rvars, tvars, fvars>>

notParse == <<ivars, template, vvars, gvars, rvars, tvars, fvars>>

notReadingTime == <<ivars, template, vvars, gvars, pvars, rvars, fvars>>

notFull == <<ivars, template, vvars, gvars, pvars, rvars, tvars>>

\* What no step of main changes.
mainFixed ==
  <<upc, ucur, ulast, uprev, upserted, ncalls, vvars, gvars, ppc,
    template, fetch_ok, args, paths, input, fs0, tvars, fvars>>

---------------------------------------------------------------------------
(* Bounds *)

MaxCalls == 3

\* Elements in the body of a document.
MaxNodes == 3

\* Words in a text whose reading time is estimated.
MaxWords == 401

---------------------------------------------------------------------------
(* Tokens and text *)

Tok(k, v) == [k |-> k, v |-> v]

T(k) == Tok(k, <<>>)

WS == T("ws")

Other == T("other")

MinOf(S) == CHOOSE x \in S : \A y \in S : x <= y

\* Characters of a text field: an ordinary letter ("q"), the backslash
\* ("bs") and the dollar sign ("dl").
Texts == { <<"q">>, <<"bs", "bs">>, <<"bs", "q">> }

Subtitles == { <<"q">>, <<"q", "q">> }

Filenames == { "a", "b" }

\* post_data as update_index_page reads it.  date_iso, date_formatted and
\* reading_time are fixed for the run and carried by the "time" token.
PostData == [filename : Filenames, title : Texts, subtitle : Subtitles]

---------------------------------------------------------------------------
(* re.sub's replacement template: backslash processing of a text field     *)
(* that is followed by the "<" of its closing tag.                         *)

RECURSIVE expand_template(_)
expand_template(t) ==
  IF t = <<>> THEN [ok |-> TRUE, out |-> <<>>]
  ELSE IF Head(t) # "bs"
    THEN LET r == expand_template(Tail(t))
         IN  [ok |-> r.ok, out |-> <<Head(t)>> \o r.out]
  ELSE IF Len(t) = 1
    THEN [ok |-> TRUE, out |-> <<"bs">>]
  ELSE IF t[2] = "bs"
    THEN LET r == expand_template(SubSeq(t, 3, Len(t)))
         IN  [ok |-> r.ok, out |-> <<"bs">> \o r.out]
  ELSE IF t[2] = "dl"
    THEN LET r == expand_template(SubSeq(t, 3, Len(t)))
         IN  [ok |-> r.ok, out |-> <<"bs", "dl">> \o r.out]
  ELSE [ok |-> FALSE, out |-> <<>>]

---------------------------------------------------------------------------
(* update_index_page *)

new_entry(post_data) ==
  << T("li"), Tok("href", <<post_data.filename>>),
     Tok("title", post_data.title), Tok("excerpt", post_data.subtitle),
     T("time"), T("endli") >>

\* new_entry as re.sub writes it when it is used as a replacement template.
entry_template_ok(post_data) ==
  expand_template(post_data.title).ok /\ expand_template(post_data.subtitle).ok

expanded_entry(post_data) ==
  << T("li"), Tok("href", <<post_data.filename>>),
     Tok("title", expand_template(post_data.title).out),
     Tok("excerpt", expand_template(post_data.subtitle).out),
     T("time"), T("endli") >>

\* The leftmost match of
\*   <li class="post-item">.*?href="posts/FILENAME".*?</li>   (re.DOTALL)
\* at or after position from: <<first, last>>, or <<>> when there is none.
existing_pattern(doc, filename, from) ==
  LET lis == {i \in from..Len(doc) : doc[i].k = "li"}
  IN  IF lis = {} THEN <<>>
      ELSE LET i  == MinOf(lis)
               js == {j \in (i+1)..Len(doc) : doc[j] = Tok("href", <<filename>>)}
           IN  IF js = {} THEN <<>>
               ELSE LET j  == MinOf(js)
                        ks == {k \in (j+1)..Len(doc) : doc[k].k = "endli"}
                    IN  IF ks = {} THEN <<>> ELSE <<i, MinOf(ks)>>

\* re.sub(existing_pattern, new_entry, content, flags=re.DOTALL)
RECURSIVE sub_existing(_, _, _, _)
sub_existing(doc, filename, repl, from) ==
  LET m == existing_pattern(doc, filename, from)
  IN  IF m = <<>> THEN SubSeq(doc, from, Len(doc))
      ELSE SubSeq(doc, from, m[1] - 1) \o repl
             \o sub_existing(doc, filename, repl, m[2] + 1)

has_posts_list(doc) == \E i \in 1..Len(doc) : doc[i].k = "ul"

has_placeholder(doc) == \E i \in 1..Len(doc) : doc[i].k = "ph"

\* The first position after the whitespace run that starts at from.
skip_ws(doc, from) ==
  MinOf({e \in from..(Len(doc) + 1) : e = Len(doc) + 1 \/ doc[e].k # "ws"})

\* re.sub(r'(<ul class="posts-list">)\s*', '\1\n  {new_entry}\n  ', content)
RECURSIVE sub_posts_list(_, _, _)
sub_posts_list(doc, repl, from) ==
  IF from > Len(doc) THEN <<>>
  ELSE IF doc[from].k = "ul"
    THEN <<doc[from], WS>> \o repl \o <<WS>>
           \o sub_posts_list(doc, repl, skip_ws(doc, from + 1))
  ELSE <<doc[from]>> \o sub_posts_list(doc, repl, from + 1)

\* content.replace('<!-- Posts will be added here -->', new_entry + ... )
RECURSIVE replace_placeholder(_, _, _)
replace_placeholder(doc, repl, from) ==
  IF from > Len(doc) THEN <<>>
  ELSE IF doc[from].k = "ph"
    THEN repl \o <<WS, doc[from]>> \o replace_placeholder(doc, repl, from + 1)
  ELSE <<doc[from]>> \o replace_placeholder(doc, repl, from + 1)

\* The update branch (publish.py 705-713): what the call decides before it
\* touches a file.
update_existing(original, post_data) ==
  IF ~entry_template_ok(post_data)
    THEN [result |-> "error", content |-> original]
  ELSE LET content == sub_existing(original, post_data.filename,
                                   expanded_entry(post_data), 1)
       IN  IF content = original
             THEN [result |-> "update_failed", content |-> original]
             ELSE [result |-> "updated", content |-> content]

\* insert_new with a fallback that appends the entry when no anchor is found.
insert_new_append(original, post_data) ==
  IF has_posts_list(original)
    THEN IF ~entry_template_ok(post_data)
           THEN [result |-> "error", content |-> original]
           ELSE [result |-> "added",
                 content |-> sub_posts_list(original, expanded_entry(post_data), 1)]
  ELSE IF has_placeholder(original)
    THEN [result |-> "added",
          content |-> replace_placeholder(original, new_entry(post_data), 1)]
  ELSE [result |-> "added", content |-> original \o new_entry(post_data)]

\* The insert branch (publish.py 715-735).
insert_new(original, post_data) ==
  IF has_posts_list(original)
    THEN IF ~entry_template_ok(post_data)
           THEN [result |-> "error", content |-> original]
           ELSE [result |-> "added",
                 content |-> sub_posts_list(original, expanded_entry(post_data), 1)]
  ELSE IF has_placeholder(original)
    THEN [result |-> "added",
          content |-> replace_placeholder(original, new_entry(post_data), 1)]
  ELSE [result |-> "insert_failed", content |-> original]

found_existing(original, post_data) ==
  existing_pattern(original, post_data.filename, 1) # <<>>

decide(original, post_data) ==
  IF found_existing(original, post_data)
    THEN update_existing(original, post_data)
    ELSE insert_new(original, post_data)

NoCall ==
  [result |-> "none", branch |-> "none",
   post_data |-> [filename |-> "a", title |-> <<>>, subtitle |-> <<>>],
   before |-> <<>>, after |-> <<>>,
   bak_before |-> [exists |-> FALSE, content |-> <<>>]]

CallRecord(d, branch, post_data, before, after, bak) ==
  [result |-> d.result, branch |-> branch, post_data |-> post_data,
   before |-> before, after |-> after, bak_before |-> bak]

branch_of(original, post_data) ==
  IF found_existing(original, post_data) THEN "update" ELSE "insert"

\* update_index_page up to the point where it either returns without
\* writing (a failure, or re.error raised by re.sub) or is about to copy
\* the backup.
update_index_page_begin(post_data) ==
  /\ upc = "idle"
  /\ ncalls < MaxCalls
  /\ ncalls' = ncalls + 1
  /\ LET d == decide(index, post_data)
         b == branch_of(index, post_data)
     IN  IF d.result \in {"updated", "added"}
           THEN /\ upc' = "backup"
                /\ ucur' = CallRecord(d, b, post_data, index, d.content, backup)
                /\ UNCHANGED <<ulast, uprev>>
           ELSE /\ upc' = "idle"
                /\ ucur' = NoCall
                /\ ulast' = CallRecord(d, b, post_data, index, index, backup)
                /\ uprev' = ulast
  /\ UNCHANGED <<index, backup, upserted>>
  /\ UNCHANGED notIndex

\* The backup taken from the new content instead of the file on disk.
update_index_page_backup_new_content ==
  /\ upc = "backup"
  /\ backup' = [exists |-> TRUE, content |-> ucur.after]
  /\ upc' = "write"
  /\ UNCHANGED <<index, ucur, ulast, uprev, upserted, ncalls>>
  /\ UNCHANGED notIndex

\* shutil.copy(index_path, backup_path)
update_index_page_backup ==
  /\ upc = "backup"
  /\ backup' = [exists |-> TRUE, content |-> index]
  /\ upc' = "write"
  /\ UNCHANGED <<index, ucur, ulast, uprev, upserted, ncalls>>
  /\ UNCHANGED notIndex

\* index_path.write_text(content); return True, ...
update_index_page_write ==
  /\ upc = "write"
  /\ index' = ucur.after
  /\ upc' = "idle"
  /\ ulast' = ucur
  /\ uprev' = ulast
  /\ ucur' = NoCall
  /\ upserted' = upserted \cup {ucur.post_data.filename}
  /\ UNCHANGED <<backup, ncalls>>
  /\ UNCHANGED notIndex

---------------------------------------------------------------------------
(* TEMPLATE_PATTERNS and the regular expressions over a template *)

PatternNames ==
  << "title_tag", "meta_description", "post_title", "post_subtitle",
     "post_meta", "post_body", "author_card" >>

PatternSet == {PatternNames[i] : i \in 1..Len(PatternNames)}

\* The opening and closing markup of each pattern.  "span" is
\* OPEN.*?CLOSE, "single" is one tag, "body" is
\* <div class="post-body">.*?</div>\s*\n\s*<div class="author-card">.
Pat(name) ==
  CASE name = "title_tag"        -> [kind |-> "span", open |-> "title_open", close |-> "title_close"]
    [] name = "meta_description" -> [kind |-> "single", open |-> "metadesc", close |-> "metadesc"]
    [] name = "post_title"       -> [kind |-> "span", open |-> "h1_open", close |-> "h1_close"]
    [] name = "post_subtitle"    -> [kind |-> "span", open |-> "sub_open", close |-> "p_close"]
    [] name = "post_meta"        -> [kind |-> "span", open |-> "meta_open", close |-> "p_close"]
    [] name = "post_body"        -> [kind |-> "body", open |-> "body_open", close |-> "div_close"]
    [] name = "author_card"      -> [kind |-> "single", open |-> "author_card", close |-> "author_card"]

is_space(tok) == tok.k \in {"sp", "nl"}

\* OPEN.*?CLOSE starting at i: the position of the first CLOSE after i, 0
\* when there is none or, without re.DOTALL, a newline lies before it.
span_end(doc, pat, dotall, i) ==
  LET ks == {k \in (i+1)..Len(doc) : doc[k].k = pat.close}
  IN  IF ks = {} THEN 0
      ELSE LET k == MinOf(ks)
           IN  IF dotall \/ \A x \in (i+1)..(k-1) : doc[x].k # "nl"
                 THEN k ELSE 0

\* </div>\s*\n\s*<div class="author-card"> with </div> at k: the position
\* of the author card, 0 when the tail does not match.
body_tail(doc, k) ==
  LET e == MinOf({x \in (k+1)..(Len(doc) + 1) :
                    x = Len(doc) + 1 \/ ~is_space(doc[x])})
  IN  IF /\ e <= Len(doc)
         /\ doc[e].k = "author_card"
         /\ \E x \in (k+1)..(e-1) : doc[x].k = "nl"
        THEN e ELSE 0

\* The post_body pattern without its author-card anchor.
body_end_unanchored(doc, i) ==
  LET ks == {k \in (i+1)..Len(doc) : doc[k].k = "div_close"}
  IN  IF ks = {} THEN 0 ELSE MinOf(ks)

\* The post_body pattern starting at i: the position of the author card
\* that ends the lazy match, 0 when there is none.
body_end(doc, i) ==
  LET ks == {k \in (i+1)..Len(doc) :
               doc[k].k = "div_close" /\ body_tail(doc, k) # 0}
  IN  IF ks = {} THEN 0 ELSE body_tail(doc, MinOf(ks))

match_end(doc, name, dotall, i) ==
  LET pat == Pat(name)
  IN  IF doc[i].k # pat.open THEN 0
      ELSE IF pat.kind = "single" THEN i
      ELSE IF pat.kind = "span" THEN span_end(doc, pat, dotall, i)
      ELSE body_end(doc, i)

\* re.search: the leftmost match at or after from, <<first, last>> or <<>>.
re_search(doc, name, dotall, from) ==
  LET is == {i \in from..Len(doc) : match_end(doc, name, dotall, i) # 0}
  IN  IF is = {} THEN <<>>
      ELSE <<MinOf(is), match_end(doc, name, dotall, MinOf(is))>>

RECURSIVE count_matches(_, _, _, _)
count_matches(doc, name, dotall, from) ==
  LET m == re_search(doc, name, dotall, from)
  IN  IF m = <<>> THEN 0
      ELSE 1 + count_matches(doc, name, dotall, m[2] + 1)

\* re.sub with count=1.
re_sub_first(doc, name, dotall, repl, from) ==
  LET m == re_search(doc, name, dotall, from)
  IN  IF m = <<>> THEN SubSeq(doc, from, Len(doc))
      ELSE SubSeq(doc, from, m[1] - 1) \o repl \o SubSeq(doc, m[2] + 1, Len(doc))

\* re.sub(pattern, replacement, template, flags=flags): every
\* non-overlapping match, left to right.
RECURSIVE re_sub(_, _, _, _, _)
re_sub(doc, name, dotall, repl, from) ==
  LET m == re_search(doc, name, dotall, from)
  IN  IF m = <<>> THEN SubSeq(doc, from, Len(doc))
      ELSE SubSeq(doc, from, m[1] - 1) \o repl
             \o re_sub(doc, name, dotall, repl, m[2] + 1)

---------------------------------------------------------------------------
(* verify_template *)

\* re.search(pattern, template, re.DOTALL) for every entry.
verify_patterns(doc) ==
  [name \in PatternSet |-> re_search(doc, name, TRUE, 1) # <<>>]

has_token(doc, kind) == \E i \in 1..Len(doc) : doc[i].k = kind

\* issues is empty: every required pattern found, '<html' present, and a
\* relative path into the blog root present.
verify_template_valid(doc) ==
  /\ \A name \in PatternSet : verify_patterns(doc)[name]
  /\ has_token(doc, "html")
  /\ has_token(doc, "relpath")

Unverified == [name \in PatternSet |-> FALSE]

verify_template ==
  /\ vpc \in {"start", "edited"}
  /\ vpc' = IF vpc = "start" THEN "verified" ELSE "reverified"
  /\ pattern_status' = verify_patterns(template)
  /\ is_valid' = verify_template_valid(template)
  /\ UNCHANGED <<template, base_status, removed>>
  /\ UNCHANGED notVerify

RECURSIVE without_kind(_, _)
without_kind(doc, kind) ==
  IF doc = <<>> THEN <<>>
  ELSE IF Head(doc).k = kind THEN without_kind(Tail(doc), kind)
  ELSE <<Head(doc)>> \o without_kind(Tail(doc), kind)

\* The template's author deletes every occurrence of one pattern's opening
\* tag from the file.
remove_marker(name) ==
  /\ vpc = "verified"
  /\ vpc' = "edited"
  /\ template' = without_kind(template, Pat(name).open)
  /\ removed' = name
  /\ base_status' = pattern_status
  /\ UNCHANGED <<pattern_status, is_valid>>
  /\ UNCHANGED notVerify

---------------------------------------------------------------------------
(* generate_post_html *)

Steps ==
  << "title_tag", "meta_description", "post_title", "post_subtitle",
     "post_meta", "post_body" >>

\* flags=re.DOTALL is passed for the last two steps only.
step_dotall(name) == name \in {"post_meta", "post_body"}

\* .replace('\\', '\\\\').replace('$', '\\$')
RECURSIVE escape(_)
escape(t) ==
  IF t = <<>> THEN <<>>
  ELSE IF Head(t) = "bs" THEN <<"bs", "bs">> \o escape(Tail(t))
  ELSE IF Head(t) = "dl" THEN <<"bs", "dl">> \o escape(Tail(t))
  ELSE <<Head(t)>> \o escape(Tail(t))

\* An escaped field as re.sub writes it into the text.
rendered(t) == expand_template(escape(t)).out

replacement(name, post_data) ==
  CASE name = "title_tag" ->
         << T("title_open"), Tok("text", rendered(post_data.title)),
            T("author_name"), T("title_close") >>
    [] name = "meta_description" ->
         << Tok("metadesc", <<"nl">> \o rendered(post_data.subtitle)) >>
    [] name = "post_title" ->
         << T("h1_open"), Tok("text", rendered(post_data.title)), T("h1_close") >>
    [] name = "post_subtitle" ->
         << T("sub_open"), Tok("text", rendered(post_data.subtitle)), T("p_close") >>
    [] name = "post_meta" ->
         << T("meta_open"), T("nl"), Tok("time", <<"now">>), T("nl"), T("p_close") >>
    [] name = "post_body" ->
         << T("body_open"), T("nl"), Tok("content", rendered(post_data.content)),
            T("nl"), T("div_close"), T("nl"), T("nl"), T("author_card") >>

\* template = template_path.read_text(); warnings = []
generate_post_html_begin(post_data) ==
  /\ gpc = "idle"
  /\ gpc' = "steps"
  /\ gtext' = template
  /\ gstep' = 1
  /\ gpost' = post_data
  /\ warnings' = <<>>
  /\ glog' = <<>>
  /\ UNCHANGED notGenerate

\* One safe_replace call: substitute, warn when the text did not change.
safe_replace ==
  /\ gpc = "steps"
  /\ gstep <= Len(Steps)
  /\ LET name == Steps[gstep]
         dotall == step_dotall(name)
         repl == replacement(name, gpost)
         new_template == re_sub(gtext, name, dotall, repl, 1)
         unchanged == (new_template = gtext)
     IN  /\ warnings' = IF unchanged THEN Append(warnings, name) ELSE warnings
         /\ gtext' = new_template
         /\ glog' = Append(glog,
                      [name |-> name,
                       found |-> re_search(gtext, name, dotall, 1) # <<>>,
                       nmatches |-> count_matches(gtext, name, dotall, 1),
                       warned |-> unchanged,
                       before |-> gtext,
                       after |-> new_template])
  /\ gstep' = gstep + 1
  /\ UNCHANGED <<gpc, gpost>>
  /\ UNCHANGED notGenerate

\* return template, warnings
generate_post_html_return ==
  /\ gpc = "steps"
  /\ gstep = Len(Steps) + 1
  /\ gpc' = "done"
  /\ UNCHANGED <<gtext, gstep, gpost, warnings, glog>>
  /\ UNCHANGED notGenerate

---------------------------------------------------------------------------
(* Templates and posts *)

NL == T("nl")

HeaderVariants ==
  { <<T("html"), T("relpath"), NL>>, <<T("html"), NL>>, <<T("relpath"), NL>> }

TitleVariants ==
  { <<>>,
    <<T("title_open"), Tok("text", <<"q">>), T("author_name"), T("title_close"), NL>>,
    <<T("title_open"), NL, Tok("text", <<"q">>), NL, T("title_close"), NL>>,
    <<T("title_open"), Tok("text", <<"q">>), T("title_close"),
      T("title_open"), Tok("text", <<"q", "q">>), T("title_close"), NL>> }

\* The first element of the tag's value is the whitespace between its two
\* attributes: a space, or the line break that generate_post_html writes.
MetaDescVariants ==
  { <<>>,
    <<Tok("metadesc", <<"sp", "q">>), NL>>,
    <<Tok("metadesc", <<"nl", "q">>), NL>> }

PostTitleVariants ==
  { <<>>, <<T("h1_open"), Tok("text", <<"q">>), T("h1_close"), NL>> }

PostSubtitleVariants ==
  { <<>>,
    <<T("sub_open"), Tok("text", <<"q">>), T("p_close"), NL>>,
    <<T("sub_open"), Tok("text", <<"q">>), NL>> }

PostMetaVariants ==
  { <<>>,
    <<T("meta_open"), NL, Tok("time", <<"old">>), NL, T("p_close"), NL>> }

PostBodyVariants ==
  { <<>>,
    <<T("body_open"), NL, Tok("text", <<"q">>), NL, T("div_close"), NL,
      T("author_card")>>,
    <<T("body_open"), NL, Tok("text", <<"q">>), NL, T("div_close"), T("sp"),
      T("author_card")>>,
    <<T("body_open"), NL, Tok("text", <<"q">>), NL, T("div_close"), NL>>,
    <<T("author_card")>> }

\* posts/post-template.html as its author may have left it.
Templates ==
  { h \o t \o d \o p \o s \o m \o b :
      h \in HeaderVariants, t \in TitleVariants, d \in MetaDescVariants,
      p \in PostTitleVariants, s \in PostSubtitleVariants,
      m \in PostMetaVariants, b \in PostBodyVariants }

\* Text with the characters re.sub and the escaping treat specially.
GenTexts == { <<"q">>, <<"bs">>, <<"dl">> }

GenPostData == [title : GenTexts, subtitle : Subtitles, content : {<<"q">>, <<"dl">>}]

NoPost == [title |-> <<>>, subtitle |-> <<>>, content |-> <<>>]

---------------------------------------------------------------------------
(* The exported document: the elements of its body in document order, each *)
(* with its parent (0 for the body itself), whether it has text of its own, *)
(* its style attribute and, for an image, its src.                          *)

Node(tag, parent, text, src, style) ==
  [tag |-> tag, parent |-> parent, text |-> text, src |-> src, style |-> style]

\* A style attribute: its declarations, each a property with a length.
Decl(prop, mag, unit) == [prop |-> prop, mag |-> mag, unit |-> unit]

NoStyle == {}

\* 'margin-left:' in style, 'padding-left:' in style.replace(' ', '')
has_prop(style, prop) == \E d \in style : d.prop = prop

\* 'pt' in style
has_pt(style) == \E d \in style : d.unit = "pt"

\* '40' in style: the digits of some length hold 40.
has_40(style) ==
  \E d \in style : d.mag % 100 = 40 \/ (d.mag \div 10) % 100 = 40

RECURSIVE ancestors(_, _)
ancestors(nodes, i) ==
  IF nodes[i].parent = 0 THEN {}
  ELSE {nodes[i].parent} \cup ancestors(nodes, nodes[i].parent)

subtree(nodes, i) == {j \in 1..Len(nodes) : j = i \/ i \in ancestors(nodes, j)}

RECURSIVE ascending(_)
ascending(S) ==
  IF S = {} THEN <<>>
  ELSE LET m == MinOf(S) IN <<m>> \o ascending(S \ {m})

\* elem.get_text(strip=True): the text-bearing elements under elem, in
\* order; the text is empty exactly when the sequence is.
get_text(nodes, alive, i) ==
  ascending({j \in subtree(nodes, i) \cap alive : nodes[j].text # ""})

\* The title looked for among the tags of the main traversal's headings.
TitleTags_with_h4 == {"h1", "h2", "h3", "h4"}

TitleTags == {"h1", "h2", "h3"}

FindAllTags == {"p", "h1", "h2", "h3", "h4", "ul", "ol", "img", "span"}

\* body.find(['h1', 'h2', 'h3']): 0 when there is none.
title_elem(nodes) ==
  LET hs == {i \in 1..Len(nodes) : nodes[i].tag \in TitleTags}
  IN  IF hs = {} THEN 0 ELSE MinOf(hs)

\* The elements left after title_elem.decompose().
after_decompose(nodes) ==
  IF title_elem(nodes) = 0 THEN 1..Len(nodes)
  ELSE (1..Len(nodes)) \ subtree(nodes, title_elem(nodes))

---------------------------------------------------------------------------
(* Images *)

\* The text of a path between its "/" separators.
path_parts(s) ==
  CASE s = "https://lh3.googleusercontent.com/g1" ->
         <<"https:", "lh3.googleusercontent.com", "g1">>
    [] s = "images/image1.png" -> <<"images", "image1.png">>
    [] s = "images/image2.png" -> <<"images", "image2.png">>
    [] s = "images/pic1.png" -> <<"images", "pic1.png">>
    [] s = "images/pic1.png?x=1" -> <<"images", "pic1.png?x=1">>
    [] s = "images/pic1.png?u=a/b" -> <<"images", "pic1.png?u=a", "b">>
    [] s = "images/pic2.png" -> <<"images", "pic2.png">>
    [] s = "images/pic2.jpg" -> <<"images", "pic2.jpg">>
    [] s = "images/pic3" -> <<"images", "pic3">>
    [] s = "word/media/pic1.png" -> <<"word", "media", "pic1.png">>
    [] OTHER -> <<s>>

\* Path(s).name: what follows the last "/".
path_name(s) == path_parts(s)[Len(path_parts(s))]

\* name.split('?')[0]
before_query(name) ==
  CASE name = "pic1.png?x=1" -> "pic1.png"
    [] name = "pic1.png?u=a" -> "pic1.png"
    [] OTHER -> name

\* Path(k).suffix
suffix(k) ==
  CASE path_name(k) \in {"image1.png", "image2.png", "pic1.png", "pic2.png"} -> ".png"
    [] path_name(k) = "pic2.jpg" -> ".jpg"
    [] OTHER -> ""

\* src_filename = Path(src).name.split('?')[0]
src_filename(src) == before_query(path_name(src))

Srcs == {"https://lh3.googleusercontent.com/g1", "images/image1.png"}

is_hosted(src) == src = "https://lh3.googleusercontent.com/g1"

\* next((k for k in local_images if Path(k).name == src_filename), None)
matched_keys(src, images) == {k \in images : path_name(k) = src_filename(src)}

\* The extension of the stored file: Path(matched_key).suffix or '.png'
\* from the archive, '.png' for a download whose content type is image/png.
stored_ext(src, images) ==
  IF images # {} /\ matched_keys(src, images) # {}
    THEN LET k == CHOOSE key \in matched_keys(src, images) : TRUE
         IN  IF suffix(k) = "" THEN ".png" ELSE suffix(k)
    ELSE ".png"

\* Whether the image of src is stored: from the archive when one was
\* given, by download_image otherwise.
image_saved(src, images, fetchable) ==
  IF images # {} THEN matched_keys(src, images) # {}
  ELSE src \in fetchable

---------------------------------------------------------------------------
(* parse_google_doc_html *)

Block(kind, node, covers, src) ==
  [kind |-> kind, node |-> node, covers |-> covers, src |-> src]

RECURSIVE concat(_)
concat(seqs) == IF seqs = <<>> THEN <<>> ELSE Head(seqs) \o concat(Tail(seqs))

\* process_list: the text of each direct li child that has any.
RECURSIVE list_items(_, _, _, _)
list_items(nodes, alive, i, j) ==
  IF j > Len(nodes) THEN <<>>
  ELSE IF /\ j \in alive
          /\ nodes[j].parent = i
          /\ nodes[j].tag = "li"
          /\ get_text(nodes, alive, j) # <<>>
    THEN <<get_text(nodes, alive, j)>> \o list_items(nodes, alive, i, j + 1)
  ELSE list_items(nodes, alive, i, j + 1)

EmptyAcc ==
  [content_parts |-> <<>>, plain_text_parts |-> <<>>,
   processed_images |-> {}, img_index |-> 0, files |-> {}]

\* The img branch without the processed_images test.
visit_img_every_reference(node, i, images, fetchable, acc) ==
  IF node.src # ""
    THEN LET n == acc.img_index + 1
             saved == image_saved(node.src, images, fetchable)
         IN  [acc EXCEPT
                !.processed_images = @ \cup {node.src},
                !.img_index = n,
                !.files = IF saved
                           THEN @ \cup {<<n, node.src, stored_ext(node.src, images)>>}
                           ELSE @,
                !.content_parts =
                   IF saved THEN Append(@, Block("figure", i, <<>>, node.src))
                   ELSE @]
    ELSE acc

\* The img branch of the loop (publish.py 515-546).
visit_img(node, i, images, fetchable, acc) ==
  IF node.src # "" /\ node.src \notin acc.processed_images
    THEN LET n == acc.img_index + 1
             saved == image_saved(node.src, images, fetchable)
         IN  [acc EXCEPT
                !.processed_images = @ \cup {node.src},
                !.img_index = n,
                !.files = IF saved
                           THEN @ \cup {<<n, node.src, stored_ext(node.src, images)>>}
                           ELSE @,
                !.content_parts =
                   IF saved THEN Append(@, Block("figure", i, <<>>, node.src))
                   ELSE @]
    ELSE acc

\* 'margin-left:' in style and 'pt' in style, or 'padding-left:' in style
\* and '40' in style, or 'margin-left:' in the parent's style.
is_blockquote(nodes, i) ==
  LET style == nodes[i].style
      parent_style == IF nodes[i].parent = 0 THEN NoStyle
                      ELSE nodes[nodes[i].parent].style
  IN  \/ has_prop(style, "margin-left") /\ has_pt(style)
      \/ has_prop(style, "padding-left") /\ has_40(style)
      \/ has_prop(parent_style, "margin-left")

\* The loop body for any other element with text (publish.py 548-583).
visit_text(nodes, alive, i, acc) ==
  LET node == nodes[i]
      text == get_text(nodes, alive, i)
  IN  IF text = <<>> THEN acc
      ELSE IF node.tag \in {"h1", "h2"}
        THEN [acc EXCEPT !.content_parts = Append(@, Block("h2", i, text, "")),
                         !.plain_text_parts = Append(@, text)]
      ELSE IF node.tag \in {"h3", "h4"}
        THEN [acc EXCEPT !.content_parts = Append(@, Block("h3", i, text, "")),
                         !.plain_text_parts = Append(@, text)]
      ELSE IF node.tag = "p"
        THEN [acc EXCEPT
                !.content_parts =
                   IF is_blockquote(nodes, i)
                     THEN Append(@, Block("blockquote", i, text, ""))
                     ELSE Append(@, Block("p", i, text, "")),
                !.plain_text_parts = Append(@, text)]
      ELSE IF node.tag \in {"ul", "ol"}
        THEN LET items == list_items(nodes, alive, i, 1)
             IN  [acc EXCEPT
                    !.content_parts =
                       IF items = <<>> THEN @
                       ELSE Append(@, Block("list", i, concat(items), "")),
                    !.plain_text_parts = Append(@, text)]
      ELSE acc

\* for elem in body.find_all([...]), in document order.
RECURSIVE walk(_, _, _, _, _, _)
walk(nodes, alive, images, fetchable, i, acc) ==
  IF i > Len(nodes) THEN acc
  ELSE walk(nodes, alive, images, fetchable, i + 1,
            IF i \notin alive \/ nodes[i].tag \notin FindAllTags THEN acc
            ELSE IF nodes[i].tag = "img"
              THEN visit_img(nodes[i], i, images, fetchable, acc)
            ELSE visit_text(nodes, alive, i, acc))

\* The second pass over body.find_all('img') (publish.py 585-595).
RECURSIVE remaining_images(_, _, _, _, _)
remaining_images(nodes, alive, fetchable, i, acc) ==
  IF i > Len(nodes) THEN acc
  ELSE remaining_images(nodes, alive, fetchable, i + 1,
         IF /\ i \in alive
            /\ nodes[i].tag = "img"
            /\ nodes[i].src # ""
            /\ nodes[i].src \notin acc.processed_images
            /\ is_hosted(nodes[i].src)
           THEN LET n == acc.img_index + 1
                    saved == nodes[i].src \in fetchable
                IN  [acc EXCEPT
                       !.processed_images = @ \cup {nodes[i].src},
                       !.img_index = n,
                       !.files = IF saved
                                  THEN @ \cup {<<n, nodes[i].src, ".png">>}
                                  ELSE @,
                       !.content_parts =
                          IF saved
                            THEN Append(@, Block("figure", i, <<>>, nodes[i].src))
                            ELSE @]
           ELSE acc)

NoResult ==
  [raised |-> FALSE, has_title |-> FALSE, title |-> <<>>, content |-> <<>>,
   plain_text |-> <<>>, image_count |-> 0, files |-> {}, made_dir |-> FALSE]

\* images_dir.mkdir() placed before the body is looked for.
parse_result_mkdir_first(doc, images, fetchable) ==
  IF ~doc.body THEN [NoResult EXCEPT !.raised = TRUE, !.made_dir = TRUE]
  ELSE LET alive == after_decompose(doc.nodes)
           acc == remaining_images(doc.nodes, alive, fetchable, 1,
                    walk(doc.nodes, alive, images, fetchable, 1, EmptyAcc))
           t == title_elem(doc.nodes)
       IN  [raised |-> FALSE,
            has_title |-> t # 0 /\ get_text(doc.nodes, 1..Len(doc.nodes), t) # <<>>,
            title |-> IF t = 0 THEN <<>> ELSE get_text(doc.nodes, 1..Len(doc.nodes), t),
            content |-> acc.content_parts,
            plain_text |-> concat(acc.plain_text_parts),
            image_count |-> acc.img_index,
            files |-> acc.files,
            made_dir |-> TRUE]

\* What parse_google_doc_html computes: PublishError when there is no
\* body (before the images directory is made), the returned dict and the
\* image files written otherwise.
parse_result(doc, images, fetchable) ==
  IF ~doc.body THEN [NoResult EXCEPT !.raised = TRUE]
  ELSE LET alive == after_decompose(doc.nodes)
           acc == remaining_images(doc.nodes, alive, fetchable, 1,
                    walk(doc.nodes, alive, images, fetchable, 1, EmptyAcc))
           t == title_elem(doc.nodes)
       IN  [raised |-> FALSE,
            has_title |-> t # 0 /\ get_text(doc.nodes, 1..Len(doc.nodes), t) # <<>>,
            title |-> IF t = 0 THEN <<>> ELSE get_text(doc.nodes, 1..Len(doc.nodes), t),
            content |-> acc.content_parts,
            plain_text |-> concat(acc.plain_text_parts),
            image_count |-> acc.img_index,
            files |-> acc.files,
            made_dir |-> TRUE]

slug_files(slug, files) == {<<slug, f[1], f[2], f[3]>> : f \in files}

files_in(slug, allfiles) == {f \in allfiles : f[1] = slug}

\* The directories under images/posts after the call: made with mkdir,
\* removed again by rmdir when img_index is 0 and the directory is empty.
dirs_after(slug, r, dirs, allfiles) ==
  IF ~r.made_dir THEN dirs
  ELSE IF r.raised THEN dirs \cup {slug}
  ELSE IF r.image_count = 0 /\ files_in(slug, allfiles) = {}
    THEN dirs \ {slug}
  ELSE dirs \cup {slug}

\* parse_google_doc_html(html, post_slug, blog_root, local_images)
parse_google_doc_html(slug) ==
  /\ ppc = "start"
  /\ ppc' = "parsed"
  /\ LET r == parse_result(html, local_images, fetch_ok)
     IN  /\ presult' = r
         /\ imgfiles' = imgfiles \cup slug_files(slug, r.files)
         /\ imgdirs' = dirs_after(slug, r, imgdirs,
                                  imgfiles \cup slug_files(slug, r.files))
  /\ UNCHANGED <<html, local_images, fetch_ok>>
  /\ UNCHANGED notParse

---------------------------------------------------------------------------
(* generate_post_html as main calls it *)

RECURSIVE generate_steps(_, _, _)
generate_steps(text, post, step) ==
  IF step > Len(Steps) THEN [text |-> text, warnings |-> <<>>]
  ELSE LET name == Steps[step]
           new_template == re_sub(text, name, step_dotall(name),
                                  replacement(name, post), 1)
           rest == generate_steps(new_template, post, step + 1)
       IN  [text |-> rest.text,
            warnings |-> (IF new_template = text THEN <<name>> ELSE <<>>)
                           \o rest.warnings]

generate_post_html(template_text, post) == generate_steps(template_text, post, 1)

---------------------------------------------------------------------------
(* main: one publish run *)

RequiredPaths == {"root", "posts", "template", "index", "git"}

\* verify_environment()[0]
verify_environment(existing) ==
  IF "root" \notin existing THEN FALSE
  ELSE {"posts", "template", "index", "git"} \subseteq existing

\* slugify(temp_data['title']) and the title of the documents of a run.
post_slug == "a"

post_title == <<"q">>

NoFile == [exists |-> FALSE, text |-> <<>>]

NoPostData == [filename |-> "", title |-> <<>>, subtitle |-> <<>>, content |-> <<>>]

NoGenerated == [text |-> <<>>, warnings |-> <<>>]

\* The files and directories a run may write.
Artifacts ==
  [post |-> post_file, index |-> index, backup |-> backup,
   dirs |-> imgdirs, files |-> imgfiles]

main_exit(why) ==
  /\ rpc' = "exit"
  /\ reason' = why

\* env_ok, env_issues = verify_environment(); sys.exit(1) if not env_ok
main_verify_environment ==
  /\ rpc = "start"
  /\ IF verify_environment(paths)
       THEN rpc' = "template" /\ reason' = reason
       ELSE main_exit("env")
  /\ UNCHANGED <<html, local_images, presult, imgdirs, imgfiles, post_file,
                 main_post_data, generated, index, backup>>
  /\ UNCHANGED mainFixed

\* template_ok, ... = verify_template(template_path); sys.exit(1) if not
main_verify_template ==
  /\ rpc = "template"
  /\ IF verify_template_valid(template)
       THEN rpc' = "load" /\ reason' = reason
       ELSE main_exit("template")
  /\ UNCHANGED <<html, local_images, presult, imgdirs, imgfiles, post_file,
                 main_post_data, generated, index, backup>>
  /\ UNCHANGED mainFixed

\* load_local_zip(args.url) for a zip, extract_doc_id and
\* download_google_doc otherwise; an error ends the run.
main_load_input ==
  /\ rpc = "load"
  /\ IF input.status = "ok"
       THEN /\ html' = input.doc
            /\ local_images' = IF input.kind = "zip" THEN input.archive ELSE {}
            /\ rpc' = "parse_temp"
            /\ reason' = reason
       ELSE /\ main_exit(IF input.kind = "zip" THEN "zip" ELSE "download")
            /\ UNCHANGED <<html, local_images>>
  /\ UNCHANGED <<presult, imgdirs, imgfiles, post_file, main_post_data, generated,
                 index, backup>>
  /\ UNCHANGED mainFixed

\* temp_data = parse_google_doc_html(html, "temp", ...); PublishError ends
\* the run.
main_parse_temp ==
  /\ rpc = "parse_temp"
  /\ LET r == parse_result(html, local_images, fetch_ok)
     IN  /\ presult' = r
         /\ imgfiles' = imgfiles \cup slug_files("temp", r.files)
         /\ imgdirs' = dirs_after("temp", r, imgdirs,
                                  imgfiles \cup slug_files("temp", r.files))
         /\ IF r.raised THEN main_exit("nobody")
            ELSE rpc' = "title" /\ reason' = reason
  /\ UNCHANGED <<html, local_images, post_file, main_post_data, generated, index,
                 backup>>
  /\ UNCHANGED mainFixed

\* No title ends the run; an existing post asks "Overwrite?" unless
\* --force, and any answer but y ends the run.
main_check_title ==
  /\ rpc = "title"
  /\ IF ~presult.has_title THEN main_exit("notitle")
     ELSE IF post_file.exists /\ ~args.force
       THEN \E response \in {"y", "n"} :
              IF response = "y" THEN rpc' = "rmtree" /\ reason' = reason
              ELSE main_exit("aborted")
     ELSE rpc' = "rmtree" /\ reason' = reason
  /\ UNCHANGED <<html, local_images, presult, imgdirs, imgfiles, post_file,
                 main_post_data, generated, index, backup>>
  /\ UNCHANGED mainFixed

\* shutil.rmtree(temp_images) if it exists
main_rmtree_temp ==
  /\ rpc = "rmtree"
  /\ rpc' = "parse"
  /\ imgdirs' = imgdirs \ {"temp"}
  /\ imgfiles' = imgfiles \ files_in("temp", imgfiles)
  /\ UNCHANGED <<reason, html, local_images, presult, post_file, main_post_data,
                 generated, index, backup>>
  /\ UNCHANGED mainFixed

\* parsed = parse_google_doc_html(html, post_slug, ...)
main_parse ==
  /\ rpc = "parse"
  /\ rpc' = "subtitle"
  /\ LET r == parse_result(html, local_images, fetch_ok)
     IN  /\ presult' = r
         /\ imgfiles' = imgfiles \cup slug_files(post_slug, r.files)
         /\ imgdirs' = dirs_after(post_slug, r, imgdirs,
                                  imgfiles \cup slug_files(post_slug, r.files))
  /\ UNCHANGED <<reason, html, local_images, post_file, main_post_data, generated,
                 index, backup>>
  /\ UNCHANGED mainFixed

\* The subtitle typed in, or the default: the plain text, or "A post about
\* <title>" when there is none.  Then post_data.
main_subtitle ==
  /\ rpc = "subtitle"
  /\ rpc' = "dry_run"
  /\ \E typed \in {<<>>, <<"q">>} :
       main_post_data' =
         [filename |-> post_slug,
          title |-> post_title,
          subtitle |-> IF typed # <<>> THEN typed
                       ELSE IF presult.plain_text # <<>> THEN <<"q", "q">>
                       ELSE <<"q", "q", "q">>,
          content |-> IF presult.content = <<>> THEN <<>> ELSE <<"q">>]
  /\ UNCHANGED <<reason, html, local_images, presult, imgdirs, imgfiles,
                 post_file, generated, index, backup>>
  /\ UNCHANGED mainFixed

\* if args.dry_run: print what would be created; return
main_dry_run ==
  /\ rpc = "dry_run"
  /\ IF args.dry_run
       THEN rpc' = "done" /\ reason' = "dry_run"
       ELSE rpc' = "generate" /\ reason' = reason
  /\ UNCHANGED <<html, local_images, presult, imgdirs, imgfiles, post_file,
                 main_post_data, generated, index, backup>>
  /\ UNCHANGED mainFixed

\* post_html, generation_warnings = generate_post_html(...); warnings ask
\* "Continue anyway?" unless --force.
main_generate ==
  /\ rpc = "generate"
  /\ LET g == generate_post_html(template,
                [title |-> main_post_data.title, subtitle |-> main_post_data.subtitle,
                 content |-> main_post_data.content])
     IN  /\ generated' = g
         /\ IF g.warnings # <<>> /\ ~args.force
              THEN \E response \in {"y", "n"} :
                     IF response = "y" THEN rpc' = "write" /\ reason' = reason
                     ELSE main_exit("warnings")
              ELSE rpc' = "write" /\ reason' = reason
  /\ UNCHANGED <<html, local_images, presult, imgdirs, imgfiles, post_file,
                 main_post_data, index, backup>>
  /\ UNCHANGED mainFixed

\* post_path.write_text(post_html)
main_write_post ==
  /\ rpc = "write"
  /\ rpc' = "index"
  /\ post_file' = [exists |-> TRUE, text |-> generated.text]
  /\ UNCHANGED <<reason, html, local_images, presult, imgdirs, imgfiles,
                 main_post_data, generated, index, backup>>
  /\ UNCHANGED mainFixed

\* update_index_page(index_path, post_data): the backup and the write when
\* it succeeds, nothing when it fails; re.error from re.sub is not caught.
main_update_index ==
  /\ rpc = "index"
  /\ LET d == decide(index, [filename |-> main_post_data.filename,
                             title |-> main_post_data.title,
                             subtitle |-> main_post_data.subtitle])
     IN  IF d.result \in {"updated", "added"}
           THEN /\ backup' = [exists |-> TRUE, content |-> index]
                /\ index' = d.content
                /\ rpc' = "push"
                /\ reason' = reason
         ELSE IF d.result = "error"
           THEN /\ main_exit("re.error")
                /\ UNCHANGED <<index, backup>>
         ELSE /\ rpc' = "push"
              /\ reason' = reason
              /\ UNCHANGED <<index, backup>>
  /\ UNCHANGED <<html, local_images, presult, imgdirs, imgfiles, post_file,
                 main_post_data, generated>>
  /\ UNCHANGED mainFixed

\* git_push(...) unless --no-push, then the summary.
main_git_push ==
  /\ rpc = "push"
  /\ rpc' = "done"
  /\ reason' = IF args.no_push THEN "published" ELSE "pushed"
  /\ UNCHANGED <<html, local_images, presult, imgdirs, imgfiles, post_file,
                 main_post_data, generated, index, backup>>
  /\ UNCHANGED mainFixed

---------------------------------------------------------------------------
(* estimate_reading_time *)

WordsPerMinute == 200

\* math.ceil(a / b) for non-negative a and positive b.
ceil_div_floor(a, b) == a \div b + 1

ceil_div(a, b) == IF a % b = 0 THEN a \div b ELSE a \div b + 1

max(a, b) == IF a >= b THEN a ELSE b

\* minutes = max(1, math.ceil(words / 200))
reading_time(n) == max(1, ceil_div(n, WordsPerMinute))

estimate_reading_time ==
  /\ tpc = "start"
  /\ tpc' = "done"
  /\ minutes' = reading_time(words)
  /\ UNCHANGED words
  /\ UNCHANGED notReadingTime

---------------------------------------------------------------------------
(* run_full_verification *)

\* verify_index()[0] on an index that exists.
verify_index(doc) == has_posts_list(doc) /\ has_token(doc, "html")

\* all_ok is cleared only inside the "if verbose:" blocks; a failed
\* environment check returns False before the other checks run.
full_verification_result(env_ok, template_ok, index_ok, is_verbose) ==
  IF ~env_ok THEN FALSE
  ELSE IF is_verbose THEN template_ok /\ index_ok
  ELSE TRUE

run_full_verification ==
  /\ fpc = "start"
  /\ fpc' = "done"
  /\ all_ok' = full_verification_result(
                 verify_environment(paths),
                 verify_template_valid(template),
                 verify_index(index),
                 verbose)
  /\ UNCHANGED <<verbose, git_ok>>
  /\ UNCHANGED notFull

---------------------------------------------------------------------------
(* Documents *)

Tags == {"p", "h1", "h3", "h4", "ul", "li", "img", "span"}

\* What an element of each kind may hold in an export.
valid_child(parent_tag, tag) ==
  CASE parent_tag = "body" -> tag \in {"p", "h1", "h3", "h4", "ul", "img", "span"}
    [] parent_tag = "ul"   -> tag \in {"li", "ul"}
    [] parent_tag = "li"   -> tag \in {"span", "p", "ul", "img"}
    [] parent_tag = "p"    -> tag \in {"span", "img"}
    [] parent_tag = "span" -> tag \in {"img"}
    [] parent_tag \in {"h1", "h3", "h4"} -> tag \in {"span"}
    [] OTHER -> FALSE

node_variants(tag, parent) ==
  CASE tag = "img" -> {Node(tag, parent, "", src, NoStyle) : src \in Srcs}
    [] tag = "ul"  -> {Node(tag, parent, "", "", NoStyle)}
    [] tag \in {"h1", "h3", "h4"} -> {Node(tag, parent, "t", "", NoStyle)}
    [] tag = "p" -> {Node(tag, parent, text, "", style) :
                       text \in {"", "t"},
                       style \in {NoStyle, {Decl("margin-left", 36, "pt")}}}
    [] OTHER -> {Node(tag, parent, text, "", NoStyle) : text \in {"", "t"}}

\* The open elements after the last one: where the next element may go.
open_parents(nodes) ==
  IF nodes = <<>> THEN {0}
  ELSE {0, Len(nodes)} \cup ancestors(nodes, Len(nodes))

parent_tag(nodes, par) == IF par = 0 THEN "body" ELSE nodes[par].tag

extensions(nodes) ==
  UNION { UNION { IF valid_child(parent_tag(nodes, par), tag)
                    THEN {Append(nodes, n) : n \in node_variants(tag, par)}
                    ELSE {}
                  : tag \in Tags }
          : par \in open_parents(nodes) }

\* Every body of at most n elements.
RECURSIVE bodies(_)
bodies(n) ==
  IF n = 0 THEN {<<>>}
  ELSE LET prev == bodies(n - 1)
       IN  prev \cup UNION {extensions(nodes) : nodes \in {d \in prev : Len(d) = n - 1}}

Documents ==
  {[body |-> TRUE, nodes |-> nodes] : nodes \in bodies(MaxNodes)}
    \cup {[body |-> FALSE, nodes |-> <<>>]}

\* The declarations of the paragraphs whose classification is examined.
Decls ==
  { Decl("margin-left", 0, "pt"), Decl("margin-left", 36, "pt"),
    Decl("margin-left", 2, "em"), Decl("padding-left", 20, "px"),
    Decl("padding-left", 40, "px"), Decl("font-size", 11, "pt") }

StyleSet == {st \in SUBSET Decls : Cardinality(st) <= 2}

\* A paragraph with text and any style, in the body or in a block with any
\* style.
StyledDocuments ==
  { [body |-> TRUE, nodes |-> <<Node("p", 0, "t", "", st)>>] : st \in StyleSet }
  \cup { [body |-> TRUE,
          nodes |-> <<Node("div", 0, "", "", pst), Node("p", 1, "t", "", st)>>] :
            pst \in StyleSet, st \in StyleSet }

\* References and archive entries whose names agree, agree up to a query,
\* differ in the extension, or have no extension.
ArchiveRefs ==
  { "images/pic1.png", "images/pic1.png?x=1", "images/pic1.png?u=a/b",
    "images/pic2.png", "images/pic3" }

ArchiveKeys == {"word/media/pic1.png", "images/pic2.jpg", "images/pic3"}

ArchiveDocuments ==
  { [body |-> TRUE, nodes |-> <<Node("img", 0, "", r, NoStyle)>>] :
      r \in ArchiveRefs }
  \cup { [body |-> TRUE,
          nodes |-> <<Node("img", 0, "", r1, NoStyle),
                      Node("img", 0, "", r2, NoStyle)>>] :
            r1 \in ArchiveRefs, r2 \in ArchiveRefs }

\* The image sources of a run: an archive that holds image1.png, an archive
\* that holds only another image, and downloads that succeed or fail.
ImageSources ==
  { [archive |-> {"images/image1.png"}, fetchable |-> {}],
    [archive |-> {"images/image2.png"}, fetchable |-> {}],
    [archive |-> {}, fetchable |-> Srcs],
    [archive |-> {}, fetchable |-> {}] }

---------------------------------------------------------------------------
(* Specifications *)

IdleIndex ==
  /\ index = <<Other>>
  /\ backup = [exists |-> FALSE, content |-> <<>>]
  /\ upc = "idle"
  /\ ucur = NoCall
  /\ ulast = NoCall
  /\ uprev = NoCall
  /\ upserted = {}
  /\ ncalls = 0

IdleVerify ==
  /\ vpc = "start"
  /\ pattern_status = Unverified
  /\ is_valid = FALSE
  /\ base_status = Unverified
  /\ removed = "none"

IdleParse ==
  /\ html = [body |-> FALSE, nodes |-> <<>>]
  /\ local_images = {}
  /\ fetch_ok = {}
  /\ imgdirs = {}
  /\ imgfiles = {}
  /\ ppc = "start"
  /\ presult = NoResult

IdleRun ==
  /\ args = [dry_run |-> FALSE, force |-> FALSE, no_push |-> FALSE]
  /\ paths = RequiredPaths
  /\ input = [kind |-> "url", status |-> "ok",
              doc |-> [body |-> FALSE, nodes |-> <<>>], archive |-> {}]
  /\ rpc = "idle"
  /\ reason = ""
  /\ post_file = NoFile
  /\ main_post_data = NoPostData
  /\ generated = NoGenerated
  /\ fs0 = Artifacts

IdleReadingTime ==
  /\ words = 0
  /\ minutes = 0
  /\ tpc = "start"

IdleFull ==
  /\ verbose = TRUE
  /\ git_ok = TRUE
  /\ all_ok = FALSE
  /\ fpc = "start"

IdleGenerate ==
  /\ gpc = "idle"
  /\ gtext = <<>>
  /\ gstep = 0
  /\ gpost = NoPost
  /\ warnings = <<>>
  /\ glog = <<>>

(* The index page under repeated publishing *)

\* index.html as the publisher may find it: with the posts list, with the
\* posts list and the placeholder comment, with the placeholder comment in
\* another list, with neither, and with a hand-written entry and neither.
IndexDocs ==
  { <<Other, T("ul"), WS, Other>>,
    <<Other, T("ul"), WS, T("ph"), WS, Other>>,
    <<Other, WS, T("ph"), WS, Other>>,
    <<Other>>,
    <<Other>> \o new_entry([filename |-> "a", title |-> <<"q">>,
                            subtitle |-> <<"q">>]) \o <<Other>> }

InitIndex ==
  /\ index \in IndexDocs
  /\ backup = [exists |-> FALSE, content |-> <<>>]
  /\ upc = "idle"
  /\ ucur = NoCall
  /\ ulast = NoCall
  /\ uprev = NoCall
  /\ upserted = {}
  /\ ncalls = 0
  /\ template = <<>>
  /\ IdleVerify
  /\ IdleGenerate
  /\ IdleParse
  /\ IdleRun
  /\ IdleReadingTime
  /\ IdleFull

NextIndex ==
  \/ \E post_data \in PostData : update_index_page_begin(post_data)
  \/ update_index_page_backup
  \/ update_index_page_write

SpecIndex == InitIndex /\ [][NextIndex]_vars

(* verify_template before and after a marker is removed *)

InitVerify ==
  /\ template \in Templates
  /\ IdleVerify
  /\ IdleIndex
  /\ IdleGenerate
  /\ IdleParse
  /\ IdleRun
  /\ IdleReadingTime
  /\ IdleFull

NextVerify ==
  \/ verify_template
  \/ \E name \in PatternSet : remove_marker(name)

SpecVerify == InitVerify /\ [][NextVerify]_vars

(* generate_post_html on any template *)

InitGenerate ==
  /\ template \in Templates
  /\ IdleGenerate
  /\ IdleIndex
  /\ IdleVerify
  /\ IdleParse
  /\ IdleRun
  /\ IdleReadingTime
  /\ IdleFull

NextGenerate ==
  \/ \E post_data \in GenPostData : generate_post_html_begin(post_data)
  \/ safe_replace
  \/ generate_post_html_return

SpecGenerate == InitGenerate /\ [][NextGenerate]_vars

(* parse_google_doc_html on any document *)

InitParse ==
  /\ html \in Documents
  /\ \E src \in ImageSources :
       /\ local_images = src.archive
       /\ fetch_ok = src.fetchable
  /\ imgdirs = {}
  /\ imgfiles = {}
  /\ ppc = "start"
  /\ presult = NoResult
  /\ template = <<>>
  /\ IdleIndex
  /\ IdleVerify
  /\ IdleGenerate
  /\ IdleRun
  /\ IdleReadingTime
  /\ IdleFull

NextParse == \E slug \in {"temp", "a"} : parse_google_doc_html(slug)

SpecParse == InitParse /\ [][NextParse]_vars

(* parse_google_doc_html on paragraphs of every style *)

InitStyles ==
  /\ html \in StyledDocuments
  /\ local_images = {}
  /\ fetch_ok = {}
  /\ imgdirs = {}
  /\ imgfiles = {}
  /\ ppc = "start"
  /\ presult = NoResult
  /\ template = <<>>
  /\ IdleIndex
  /\ IdleVerify
  /\ IdleGenerate
  /\ IdleRun
  /\ IdleReadingTime
  /\ IdleFull

SpecStyles == InitStyles /\ [][NextParse]_vars

(* parse_google_doc_html on images resolved from an archive *)

InitArchive ==
  /\ html \in ArchiveDocuments
  /\ local_images \in SUBSET ArchiveKeys
  /\ fetch_ok \in {{}, ArchiveRefs}
  /\ imgdirs = {}
  /\ imgfiles = {}
  /\ ppc = "start"
  /\ presult = NoResult
  /\ template = <<>>
  /\ IdleIndex
  /\ IdleVerify
  /\ IdleGenerate
  /\ IdleRun
  /\ IdleReadingTime
  /\ IdleFull

SpecArchive == InitArchive /\ [][NextParse]_vars

(* A publish run on any command line, blog and input *)

RunDocuments ==
  { [body |-> FALSE, nodes |-> <<>>],
    [body |-> TRUE, nodes |-> <<Node("p", 0, "t", "", NoStyle)>>],
    [body |-> TRUE, nodes |-> <<Node("h1", 0, "t", "", NoStyle),
                                Node("p", 0, "t", "", NoStyle)>>],
    [body |-> TRUE, nodes |-> <<Node("h1", 0, "t", "", NoStyle),
                                Node("p", 0, "t", "", NoStyle),
                                Node("img", 0, "", "https://lh3.googleusercontent.com/g1", NoStyle)>>],
    [body |-> TRUE, nodes |-> <<Node("h1", 0, "t", "", NoStyle),
                                Node("img", 0, "", "images/image1.png", NoStyle)>>] }

NoDocument == [body |-> FALSE, nodes |-> <<>>]

\* args.url: a zip that is missing, holds no HTML, is corrupt or cannot be
\* read; a zip that loads, with or without its image; a URL that does not
\* name a document or cannot be downloaded; a URL that downloads.
RunInputs ==
  { [kind |-> "zip", status |-> st, doc |-> NoDocument, archive |-> {}] :
      st \in {"not_found", "no_html", "bad_zip", "unreadable"} }
  \cup { [kind |-> "zip", status |-> "ok", doc |-> d, archive |-> a] :
           d \in RunDocuments, a \in {{}, {"images/image1.png"}} }
  \cup { [kind |-> "url", status |-> st, doc |-> NoDocument, archive |-> {}] :
           st \in {"bad_url", "download_failed"} }
  \cup { [kind |-> "url", status |-> "ok", doc |-> d, archive |-> {}] :
           d \in RunDocuments }

\* A template that passes verification and generates without warnings, one
\* without the post-body marker, and one whose <title> spans lines.
RunTemplates ==
  LET head == <<T("html"), T("relpath"), NL>>
      title1 == <<T("title_open"), Tok("text", <<"q">>), T("author_name"),
                  T("title_close"), NL>>
      title2 == <<T("title_open"), NL, Tok("text", <<"q">>), NL,
                  T("title_close"), NL>>
      mid == <<Tok("metadesc", <<"sp", "q">>), NL,
               T("h1_open"), Tok("text", <<"q">>), T("h1_close"), NL,
               T("sub_open"), Tok("text", <<"q">>), T("p_close"), NL,
               T("meta_open"), Other, T("p_close"), NL>>
      body == <<T("body_open"), Other, T("div_close"), NL, T("author_card"), NL>>
  IN  { head \o title1 \o mid \o body,
        head \o title1 \o mid \o <<T("author_card"), NL>>,
        head \o title2 \o mid \o body }

InitRun ==
  /\ args \in [dry_run : BOOLEAN, force : BOOLEAN, no_push : BOOLEAN]
  /\ paths \in {RequiredPaths, RequiredPaths \ {"posts"}, {}}
  /\ input \in RunInputs
  /\ fetch_ok \in {Srcs, {}}
  /\ template \in RunTemplates
  /\ index \in IndexDocs
  /\ backup = [exists |-> FALSE, content |-> <<>>]
  /\ post_file \in {NoFile, [exists |-> TRUE, text |-> <<Other>>]}
  /\ imgdirs = {}
  /\ imgfiles = {}
  /\ rpc = "start"
  /\ reason = ""
  /\ main_post_data = NoPostData
  /\ generated = NoGenerated
  /\ fs0 = Artifacts
  /\ html = NoDocument
  /\ local_images = {}
  /\ ppc = "start"
  /\ presult = NoResult
  /\ upc = "idle"
  /\ ucur = NoCall
  /\ ulast = NoCall
  /\ uprev = NoCall
  /\ upserted = {}
  /\ ncalls = 0
  /\ IdleVerify
  /\ IdleGenerate
  /\ IdleReadingTime
  /\ IdleFull

NextRun ==
  \/ main_verify_environment
  \/ main_verify_template
  \/ main_load_input
  \/ main_parse_temp
  \/ main_check_title
  \/ main_rmtree_temp
  \/ main_parse
  \/ main_subtitle
  \/ main_dry_run
  \/ main_generate
  \/ main_write_post
  \/ main_update_index
  \/ main_git_push

SpecRun == InitRun /\ [][NextRun]_vars

(* estimate_reading_time on every word count *)

InitReadingTime ==
  /\ words \in 0..MaxWords
  /\ minutes = 0
  /\ tpc = "start"
  /\ template = <<>>
  /\ IdleIndex
  /\ IdleVerify
  /\ IdleGenerate
  /\ IdleParse
  /\ IdleRun
  /\ IdleFull

NextReadingTime == estimate_reading_time

SpecReadingTime == InitReadingTime /\ [][NextReadingTime]_vars

(* run_full_verification on any blog *)

\* index.html with and without the <html tag and the posts list.
FullIndexDocs ==
  { <<T("html"), Other, T("ul"), WS, Other>>,
    <<T("html"), Other>>,
    <<Other, T("ul"), WS, Other>>,
    <<Other>> }

InitFull ==
  /\ verbose \in BOOLEAN
  /\ git_ok \in BOOLEAN
  /\ all_ok = FALSE
  /\ fpc = "start"
  /\ paths \in {RequiredPaths, RequiredPaths \ {"posts"}, RequiredPaths \ {"git"}, {}}
  /\ template \in RunTemplates
  /\ index \in FullIndexDocs
  /\ backup = [exists |-> FALSE, content |-> <<>>]
  /\ upc = "idle"
  /\ ucur = NoCall
  /\ ulast = NoCall
  /\ uprev = NoCall
  /\ upserted = {}
  /\ ncalls = 0
  /\ args = [dry_run |-> FALSE, force |-> FALSE, no_push |-> FALSE]
  /\ input = [kind |-> "url", status |-> "ok",
              doc |-> [body |-> FALSE, nodes |-> <<>>], archive |-> {}]
  /\ rpc = "idle"
  /\ reason = ""
  /\ post_file = NoFile
  /\ main_post_data = NoPostData
  /\ generated = NoGenerated
  /\ IdleVerify
  /\ IdleGenerate
  /\ IdleParse
  /\ IdleReadingTime
  /\ fs0 = Artifacts

NextFull == run_full_verification

SpecFull == InitFull /\ [][NextFull]_vars

---------------------------------------------------------------------------
(* Properties of update_index_page *)

CountHref(doc, filename) ==
  Cardinality({i \in 1..Len(doc) : doc[i] = Tok("href", <<filename>>)})

\* The title and excerpt of every entry of filename in doc.
EntriesOf(doc, filename) ==
  {<<doc[i + 1], doc[i + 2]>> :
     i \in {j \in 1..(Len(doc) - 2) : doc[j] = Tok("href", <<filename>>)}}

has_anchor(doc) == has_posts_list(doc) \/ has_placeholder(doc)

PlainText(t) == \A i \in 1..Len(t) : t[i] # "bs"

Returned(call) == call.result \notin {"none", "error"}

Succeeded(call) == call.result \in {"updated", "added"}

\* C1: two update_index_page calls in sequence with identical metadata, the
\* first on a document with an insertion anchor: the document after the
\* second call equals the document after the first, it holds exactly one
\* entry for the filename, and the second call took the update branch.
\* Stated for calls that return and for text without backslashes.
C1_UpsertIdempotent ==
  ( /\ upc = "idle"
    /\ Returned(uprev) /\ Returned(ulast)
    /\ ulast.post_data = uprev.post_data
    /\ PlainText(ulast.post_data.title)
    /\ has_anchor(uprev.before) )
  => /\ ulast.after = uprev.after
     /\ index = uprev.after
     /\ CountHref(index, ulast.post_data.filename) = 1
     /\ ulast.branch = "update"

\* C2: the index holds exactly one entry for every filename that was
\* upserted, and an update of one post's entry leaves the entries of every
\* other post as they were.
C2_OneEntryPerFilename ==
  upc = "idle"
  => /\ \A f \in upserted : CountHref(index, f) = 1
     /\ ulast.result = "updated"
          => \A f \in Filenames \ {ulast.post_data.filename} :
               EntriesOf(ulast.after, f) = EntriesOf(ulast.before, f)

\* C3: the backup is copied before the index is overwritten, it holds the
\* index as it was immediately before this call, and a later successful
\* call overwrites it (one slot).
C3_BackupThenWrite ==
  /\ upc = "backup" => index = ucur.before /\ backup = ucur.bak_before
  /\ upc = "write"
       => /\ index = ucur.before
          /\ backup = [exists |-> TRUE, content |-> ucur.before]
  /\ (upc = "idle" /\ Succeeded(ulast))
       => /\ index = ulast.after
          /\ index # ulast.before
          /\ backup = [exists |-> TRUE, content |-> ulast.before]

\* A second successful call has replaced the backup of the first.
C3_Witness ==
  /\ upc = "idle"
  /\ Succeeded(ulast)
  /\ ulast.bak_before.exists
  /\ ulast.bak_before.content # backup.content

\* C4: with no entry for the post, no posts list and no placeholder
\* comment, update_index_page reports failure and leaves index.html and
\* index.html.bak as they were.
C4_NoAnchorNoWrite ==
  ( /\ upc = "idle"
    /\ ulast.result # "none"
    /\ CountHref(ulast.before, ulast.post_data.filename) = 0
    /\ ~has_anchor(ulast.before) )
  => /\ ulast.result = "insert_failed"
     /\ index = ulast.before
     /\ backup = ulast.bak_before

\* The failure is reported while a backup of an earlier update exists.
C4_Witness ==
  /\ upc = "idle"
  /\ ulast.result = "insert_failed"
  /\ ulast.bak_before.exists
  /\ CountHref(ulast.before, ulast.post_data.filename) = 0
  /\ ~has_anchor(ulast.before)

---------------------------------------------------------------------------
(* Properties of generate_post_html and verify_template *)

NotFoundSteps == {i \in 1..Len(glog) : ~glog[i].found}

\* C5: generate_post_html runs the six substitutions in the fixed order,
\* and its warnings hold exactly one warning for each step whose pattern was
\* not found in the text when the step ran, none for a step whose pattern
\* was found.
C5_WarningIffNotFound ==
  gpc = "done"
  => /\ Len(glog) = Len(Steps)
     /\ \A i \in 1..Len(glog) : glog[i].name = Steps[i]
     /\ \A i \in 1..Len(glog) : glog[i].warned = ~glog[i].found
     /\ Len(warnings) = Cardinality(NotFoundSteps)

Occurrences(doc, seq) ==
  Cardinality({i \in 1..(Len(doc) - Len(seq) + 1) :
                 SubSeq(doc, i, i + Len(seq) - 1) = seq})

\* doc with only the j-th match of the pattern replaced.
RECURSIVE replace_nth(_, _, _, _, _, _)
replace_nth(doc, name, dotall, repl, from, j) ==
  LET m == re_search(doc, name, dotall, from)
  IN  IF m = <<>> THEN SubSeq(doc, from, Len(doc))
      ELSE IF j = 1
        THEN SubSeq(doc, from, m[1] - 1) \o repl \o SubSeq(doc, m[2] + 1, Len(doc))
      ELSE SubSeq(doc, from, m[2])
             \o replace_nth(doc, name, dotall, repl, m[2] + 1, j - 1)

AllFound(status) == \A name \in PatternSet : status[name]

\* C7 as stated: from a template in which every pattern matches, removing
\* one pattern's marker makes verify_template report that pattern, and no
\* other, as not found.
C7_ExactlyOneMissing ==
  (vpc = "reverified" /\ AllFound(base_status))
  => pattern_status = [name \in PatternSet |-> name # removed]

\* C7 as amended: that holds for every marker but the author card's, whose
\* removal makes post_body not found as well.
C7_MissingAfterRemoval ==
  (vpc = "reverified" /\ AllFound(base_status))
  => pattern_status =
       [name \in PatternSet |->
          /\ name # removed
          /\ ~(removed = "author_card" /\ name = "post_body")]

\* The author card's marker was removed from a template that had every
\* pattern, and the template was verified again.
C7_Witness ==
  /\ vpc = "reverified"
  /\ AllFound(base_status)
  /\ removed = "author_card"
  /\ ~pattern_status["post_body"]

---------------------------------------------------------------------------
(* parse_google_doc_html: the emitted blocks *)

Parsed == ppc = "parsed" /\ ~presult.raised

Elems(seq) == {seq[k] : k \in 1..Len(seq)}

\* C10: for any input document the emitted blocks are in document order,
\* each from a different element, and no element's content is emitted in
\* two blocks (as a list and again as a paragraph or nested list).
C10_BlocksOnceInOrder ==
  Parsed =>
    \A m, n \in 1..Len(presult.content) :
      m < n =>
        /\ presult.content[m].node < presult.content[n].node
        /\ Elems(presult.content[m].covers)
             \cap Elems(presult.content[n].covers) = {}

---------------------------------------------------------------------------
(* main: what a run leaves behind *)

Ended == rpc \in {"exit", "done"}

FatalReasons == {"env", "template", "zip", "nobody"}

\* C8: a run that ends on a fatal condition (a required path missing, a
\* required template pattern missing, a zip that cannot be loaded, a
\* document with no body) has created or modified no post file, index,
\* backup, image file or image directory.
C8_FatalBeforeWrite ==
  (rpc = "exit" /\ reason \in FatalReasons) => Artifacts = fs0

\* A run that got as far as parsing and ended because the document has no
\* body, on a blog whose index could have been updated.
C8_Witness ==
  /\ rpc = "exit"
  /\ reason = "nobody"
  /\ has_posts_list(index)
  /\ presult.raised

\* C9: a run with --dry-run ends with every post file, index, backup,
\* image file and image directory as it was when the run started.
C9_DryRunNoChanges ==
  (args.dry_run /\ Ended) => Artifacts = fs0

---------------------------------------------------------------------------
(* parse_google_doc_html: images *)

\* The img elements left in the body after the title is removed.
ImgRefs(src) ==
  {i \in after_decompose(html.nodes) :
     html.nodes[i].tag = "img" /\ html.nodes[i].src = src}

StoredFiles(src) == {f \in imgfiles : f[3] = src}

ImageBlocks(src) ==
  {k \in 1..Len(presult.content) :
     presult.content[k].kind = "figure" /\ presult.content[k].src = src}

\* C11: within one extraction each image source is resolved at most once:
\* however often a source is referenced, at most one file is stored and at
\* most one image block emitted for it, and exactly one of each when the
\* source resolves.
C11_OneAssetPerSource ==
  Parsed =>
    \A src \in Srcs :
      /\ Cardinality(StoredFiles(src)) <= 1
      /\ Cardinality(ImageBlocks(src)) = Cardinality(StoredFiles(src))
      /\ (ImgRefs(src) # {} /\ image_saved(src, local_images, fetch_ok))
            => Cardinality(StoredFiles(src)) = 1

\* A document that references one source twice, parsed with the image
\* downloaded.
C11_Witness ==
  /\ Parsed
  /\ \E src \in Srcs :
       /\ Cardinality(ImgRefs(src)) >= 2
       /\ Cardinality(StoredFiles(src)) = 1
       /\ Cardinality(ImageBlocks(src)) = 1

---------------------------------------------------------------------------
(* estimate_reading_time *)

\* C12: for every word count n the result is max(1, ceil(n / 200)): the
\* least m >= 1 with 200 * m >= n; 0, 199 and 200 words give 1, 201 words
\* give 2, and the result is never less than 1.
C12_ReadingTime ==
  tpc = "done" =>
    /\ minutes >= 1
    /\ 200 * minutes >= words
    /\ minutes > 1 => 200 * (minutes - 1) < words
    /\ words \in {0, 199, 200} => minutes = 1
    /\ words = 201 => minutes = 2

\* The estimate for a text of exactly 200 words.
C12_Witness ==
  /\ tpc = "done"
  /\ words = 200
  /\ minutes = 1

---------------------------------------------------------------------------
(* run_full_verification *)

\* C15: run_full_verification returns True exactly when the environment,
\* template and index checks all pass, whatever verify_git reports and
\* whatever the verbose flag is.
C15_AllChecksDecide ==
  fpc = "done" =>
    (all_ok <=> /\ verify_environment(paths)
                /\ verify_template_valid(template)
                /\ verify_index(index))

---------------------------------------------------------------------------
(* parse_google_doc_html: blockquotes *)

LeftIndentProps == {"margin-left", "padding-left"}

BlocksFrom(i) ==
  {presult.content[k] : k \in {j \in 1..Len(presult.content) :
                                 presult.content[j].node = i}}

\* C13: a paragraph with text whose own style has a left margin or indent
\* of nonzero magnitude is emitted as a blockquote, and one whose own style
\* has no left margin or indent is emitted as a plain paragraph.
C13_BlockquoteByOwnIndent ==
  Parsed =>
    \A i \in 1..Len(html.nodes) :
      (html.nodes[i].tag = "p" /\ html.nodes[i].text # "") =>
        /\ (\E d \in html.nodes[i].style :
              d.prop \in LeftIndentProps /\ d.mag # 0)
             => \A b \in BlocksFrom(i) : b.kind = "blockquote"
        /\ (\A d \in html.nodes[i].style : d.prop \notin LeftIndentProps)
             => \A b \in BlocksFrom(i) : b.kind = "p"

---------------------------------------------------------------------------
(* parse_google_doc_html: the image directory *)

\* C14: after parse_google_doc_html returns, no image directory is left
\* empty: when no image was stored, also when the document references
\* images and none resolved, the directory has been removed.
C14_NoEmptyDirLeft ==
  Parsed => \A slug \in imgdirs : files_in(slug, imgfiles) # {}

---------------------------------------------------------------------------
(* parse_google_doc_html: images from an archive *)

\* A reference without its trailing "?query".
without_query(src) ==
  CASE src = "images/pic1.png?x=1" -> "images/pic1.png"
    [] src = "images/pic1.png?u=a/b" -> "images/pic1.png"
    [] OTHER -> src

\* The archive entries whose base filename is that of the reference
\* without its query.
EntriesFor(src) ==
  {k \in local_images : path_name(k) = path_name(without_query(src))}

ReferencedSrcs ==
  {html.nodes[i].src : i \in {j \in after_decompose(html.nodes) :
                                html.nodes[j].tag = "img" /\ html.nodes[j].src # ""}}

\* C16: with an archive, a reference is stored exactly when an entry has
\* its base filename after the "?query" is dropped; the stored file has
\* that entry's extension, ".png" when it has none; a reference with no
\* such entry gives no image block and no file.
C16_MatchByBaseName ==
  (Parsed /\ local_images # {}) =>
    \A src \in ReferencedSrcs :
      /\ StoredFiles(src) # {} <=> EntriesFor(src) # {}
      /\ ImageBlocks(src) # {} <=> EntriesFor(src) # {}
      /\ \A f \in StoredFiles(src) :
           \E k \in EntriesFor(src) :
             f[4] = IF suffix(k) = "" THEN ".png" ELSE suffix(k)

---------------------------------------------------------------------------
(* verify_template against generate_post_html *)

\* C17: on a template that verify_template accepts, generate_post_html
\* finds each of its six patterns and returns no warnings, for every post.
C17_VerifiedTemplateGenerates ==
  (gpc = "done" /\ verify_template_valid(template)) =>
    /\ warnings = <<>>
    /\ \A k \in 1..Len(glog) : glog[k].found

---------------------------------------------------------------------------
(* parse_google_doc_html: the title *)

\* The h1, h2 and h3 elements of the document, and the first of them.
MajorHeadings ==
  {i \in 1..Len(html.nodes) : html.nodes[i].tag \in {"h1", "h2", "h3"}}

FirstHeading == IF MajorHeadings = {} THEN 0 ELSE MinOf(MajorHeadings)

\* The elements with text of their own inside element i, i included.
TextUnder(i) ==
  {j \in 1..Len(html.nodes) :
     /\ html.nodes[j].text # ""
     /\ j = i \/ i \in ancestors(html.nodes, j)}

Emitted(i) == \E k \in 1..Len(presult.content) : presult.content[k].node = i

---------------------------------------------------------------------------
(* generate_post_html: the text written at a marker *)

\* The text field that follows an opening marker somewhere in doc.
WrittenAfter(doc, open, field) ==
  \E i \in 1..(Len(doc) - 1) :
    doc[i] = T(open) /\ doc[i + 1] = Tok("text", field)

\* C19: where a marker is present, the title, subtitle or content written
\* at it is character for character the field's value, backslashes and
\* dollar signs included.
C19_FieldsVerbatim ==
  gpc = "done" =>
    \A k \in 1..Len(glog) :
      glog[k].found =>
        /\ glog[k].name = "title_tag"
             => WrittenAfter(glog[k].after, "title_open", gpost.title)
        /\ glog[k].name = "post_title"
             => WrittenAfter(glog[k].after, "h1_open", gpost.title)
        /\ glog[k].name = "post_subtitle"
             => WrittenAfter(glog[k].after, "sub_open", gpost.subtitle)
        /\ glog[k].name = "post_body"
             => \E i \in 1..Len(glog[k].after) :
                  glog[k].after[i] = Tok("content", gpost.content)

====
